---- MODULE Spec2Model ----
(***************************************************************************)
(* Model of the drawing-blueprint platform's core (backend/app/core):     *)
(* contour analysis (contour_analyzer.py), step planning (step_planner.py),*)
(* tone mapping (tone_mapper.py), proportion scoring (blueprint_engine.py) *)
(* region extraction (shading_mapper.py), the renderer render_step         *)
(* (canvas_renderer.py) and the orchestrator generate_drawing_steps        *)
(* (step_generator.py) with the files it writes.                           *)
(*                                                                         *)
(* Numbers.  The source computes with floats; the model computes the same  *)
(* quantities as exact rationals over a common denominator.  An importance *)
(* score s of the source is the integer s * ScoreScale of the model, a     *)
(* threshold t (0.6, 0.4, ...) is kept in tenths and compared through      *)
(* score * 10 < tenths * ScoreScale.  Areas and perimeters stay in pixels; *)
(* the normalised values of the source are area_px / ImageArea and         *)
(* perimeter_px / MaxDim.                                                  *)
(*                                                                         *)
(* Indices.  Contours and hierarchy rows keep the 0-based indices of the   *)
(* source (parent -1 = none); the TLA+ sequence holding them is 1-based,   *)
(* so row idx is raw[idx + 1].                                             *)
(***************************************************************************)
EXTENDS Integers, Sequences, FiniteSets, TLC

Range(f) == {f[x] : x \in DOMAIN f}

VARIABLES
    pc,               \* position in generate_drawing_steps
    raw,              \* what cv2.findContours returned: hierarchy row + pixel measures
    include_shading,  \* argument of plan_steps
    analyzed,         \* list returned by analyze_contours
    steps             \* list returned by plan_steps

VARIABLES
    grayscale,        \* argument of generate_tone_mask: one row of uint8 pixels
    bands,            \* argument of generate_tone_mask: the band table
    tone_mask,        \* mask returned by generate_tone_mask
    tones             \* dict returned by tone_summary, in tenths of a percent

VARIABLES
    landmarks,        \* argument of _score_proportions: list of {name, x, y}
    accuracy          \* value returned by _score_proportions, in hundredths of a percent

VARIABLES
    run,              \* per call of generate_drawing_steps: its position and its locals
    dirs,             \* the session directories that exist under STEPS_OUTPUT_DIR
    files,            \* the image files that exist under STEPS_OUTPUT_DIR
    writes,           \* every file cv2.imwrite has stored: which call, which step, which path
    faults            \* how many operations have failed so far

VARIABLES
    regions,          \* list returned by map_shading
    paper_size,       \* argument of render_step
    image_aspect,     \* argument of render_step: << width, height >> of the image
    shapes,           \* the point arrays of the shapes handed to render_step
    calls             \* the calls of render_step made so far: arguments and canvas

planVars == <<raw, include_shading, analyzed, steps>>
scoreVars == <<landmarks, accuracy>>
toneVars == <<grayscale, bands, tone_mask, tones>>
runVars == <<run, dirs, files, writes, faults>>
shadeVars == <<regions>>
renderVars == <<paper_size, image_aspect, shapes, calls>>

vars == <<pc, raw, include_shading, analyzed, steps, grayscale, bands, tone_mask, tones,
          landmarks, accuracy, run, dirs, files, writes, faults,
          regions, paper_size, image_aspect, shapes, calls>>

----------------------------------------------------------------------------
(* Bounds of the model *)

ImgW == 20            \* width of the edge map, pixels
ImgH == 10            \* height of the edge map, pixels
MaxContours == 3      \* exhaustive inputs: every forest of at most this many contours
MaxDepth == 6         \* comb inputs: depth of the wide level, 0..MaxDepth
MaxWidth == 21        \* comb inputs: number of sibling contours on the wide level
MaxPixels == 3        \* tone inputs: pixels of the grayscale row
MaxBands == 2         \* tone inputs: bands of a caller-supplied band table
MaxLandmarks == 2     \* scorer inputs: every landmark list of at most this length
MaxRuns == 2          \* calls of generate_drawing_steps that run side by side
MaxFaults == 1        \* operations that fail in one behaviour

MaxCalls == 3         \* calls of render_step on its own in one behaviour

ImageArea == ImgH * ImgW
MaxDim == IF ImgW >= ImgH THEN ImgW ELSE ImgH

\* min_area_fraction = 0.0005 = MinAreaNum / MinAreaDen
MinAreaNum == 5
MinAreaDen == 10000

\* denominator of the importance scores
ScoreScale == 100 * ImageArea * MaxDim

Max(a, b) == IF a >= b THEN a ELSE b
Min(a, b) == IF a <= b THEN a ELSE b

\* pixel areas and perimeters the enumerated contours may have
AreaPxVals == {0, 1, ImageArea \div 10, ImageArea}
PerimPxVals == {2, 3 * MaxDim}

----------------------------------------------------------------------------
(* contour_analyzer.py *)

RECURSIVE _compute_depth(_, _)
_compute_depth(hierarchy, idx) ==
    IF hierarchy[idx + 1].parent = -1
    THEN 0
    ELSE 1 + _compute_depth(hierarchy, hierarchy[idx + 1].parent)

_classify_tier_deep(depth) ==
    IF depth = 0 THEN "outer"
    ELSE IF depth <= 3 THEN "inner"
    ELSE "detail"

_classify_tier(depth) ==
    IF depth = 0 THEN "outer"
    ELSE IF depth <= 2 THEN "inner"
    ELSE "detail"

depth_term_steep(depth) == 10 * ImageArea * MaxDim * Max(0, 5 - 2 * depth)

\* 0.50 * depth_weight, depth_weight = max(0, 5 - depth) / 5.0
depth_term(depth) == 10 * ImageArea * MaxDim * Max(0, 5 - depth)

\* 0.35 * area_weight, area_weight = min(area_norm * 10, 1.0)
area_term_uncapped(area_px) == 35 * MaxDim * (area_px * 10)

area_term(area_px) == 35 * MaxDim * Min(area_px * 10, ImageArea)

\* 0.15 * structure_weight, structure_weight = min(perimeter_norm * 2, 1.0)
structure_term(perimeter_px) == 15 * ImageArea * Min(perimeter_px * 2, MaxDim)

importance(depth, area_px, perimeter_px) ==
    depth_term(depth) + area_term(area_px) + structure_term(perimeter_px)

\* the sums of cv2.moments over the edges of a closed polygon (Green's
\* formula): a00 = 2 * m00, a10 = 6 * m10, a01 = 6 * m01; sx and sy are the
\* sums of the coordinates
RECURSIVE polygon_sums(_, _)
polygon_sums(points, k) ==
    IF k = 0 THEN [ a00 |-> 0, a10 |-> 0, a01 |-> 0, sx |-> 0, sy |-> 0 ]
    ELSE LET rest == polygon_sums(points, k - 1)
             p == points[k]
             q == points[(k % Len(points)) + 1]
             cross == p[1] * q[2] - q[1] * p[2]
         IN [ a00 |-> rest.a00 + cross,
              a10 |-> rest.a10 + cross * (p[1] + q[1]),
              a01 |-> rest.a01 + cross * (p[2] + q[2]),
              sx |-> rest.sx + p[1],
              sy |-> rest.sy + p[2] ]

\* _compute_centroid, in pixels, as << xn, xd, yn, yd >>: (m10 / m00,
\* m01 / m00), or the mean of the points when m00 = 0
_compute_centroid(points) ==
    LET s == polygon_sums(points, Len(points))
    IN IF s.a00 = 0 THEN << s.sx, Len(points), s.sy, Len(points) >>
       ELSE IF s.a00 > 0 THEN << s.a10, 3 * s.a00, s.a01, 3 * s.a00 >>
       ELSE << 0 - s.a10, 0 - 3 * s.a00, 0 - s.a01, 0 - 3 * s.a00 >>

\* the fields centroid and points_normalised of the AnalyzedContour c, for
\* edge maps that give the points of their contours: centroid =
\* (cx_px / w, cy_px / h) and pts[:, 0] /= w, pts[:, 1] /= h.  The source
\* stores them when it builds c; they never change, so the model computes
\* them from the contour c.idx where they are read.
centroid(hierarchy, c) ==
    LET px == _compute_centroid(hierarchy[c.idx + 1].points)
    IN << px[1], px[2] * ImgW, px[3], px[4] * ImgH >>

points_normalised(hierarchy, c) ==
    LET pts == hierarchy[c.idx + 1].points
    IN [ p \in 1..Len(pts) |-> << pts[p][1], ImgW, pts[p][2], ImgH >> ]

\* the AnalyzedContour built for contour idx (the body of the loop over the contours)
AnalyzedContour(hierarchy, idx) ==
    LET depth == _compute_depth(hierarchy, idx)
        row == hierarchy[idx + 1]
    IN [ idx |-> idx,
         area |-> row.area_px,
         perimeter |-> row.perimeter_px,
         depth |-> depth,
         parent_idx |-> row.parent,
         tier |-> _classify_tier(depth),
         importance_score |-> importance(depth, row.area_px, row.perimeter_px) ]

\* the for loop of analyze_contours: noise contours are skipped
RECURSIVE analyze_loop(_, _)
analyze_loop(hierarchy, idx) ==
    IF idx >= Len(hierarchy) THEN << >>
    ELSE IF hierarchy[idx + 1].area_px * MinAreaDen < ImageArea * MinAreaNum
         THEN analyze_loop(hierarchy, idx + 1)
         ELSE << AnalyzedContour(hierarchy, idx) >> \o analyze_loop(hierarchy, idx + 1)

Reverse(s) == [i \in 1..Len(s) |-> s[Len(s) + 1 - i]]

\* insert c into the ascending list s behind every element whose key is <= c's
RECURSIVE insert_after_equal(_, _)
insert_after_equal(s, c) ==
    IF s = << >> THEN << c >>
    ELSE IF Head(s).importance_score <= c.importance_score
         THEN << Head(s) >> \o insert_after_equal(Tail(s), c)
         ELSE << c >> \o s

\* a stable ascending sort by importance_score
RECURSIVE stable_sort(_)
stable_sort(s) ==
    IF s = << >> THEN << >>
    ELSE insert_after_equal(stable_sort(SubSeq(s, 1, Len(s) - 1)), s[Len(s)])

sort_reverse_unstable(s) == Reverse(stable_sort(s))

\* list.sort(key=importance_score, reverse=True): the list is reversed, sorted
\* by a stable ascending sort and reversed again, which keeps equal keys in
\* their original order
sort_reverse(s) == Reverse(stable_sort(Reverse(s)))

analyze_contours(hierarchy) ==
    IF Len(hierarchy) = 0 THEN << >>
    ELSE sort_reverse(analyze_loop(hierarchy, 0))

----------------------------------------------------------------------------
(* step_planner.py *)

\* DrawingStep; contours is the batch, held as the 0-based positions of its
\* contours in the list given to plan_steps (the objects themselves in the
\* source, which are distinct even when their fields are equal)
DrawingStep(step_number, phase_name, contours, is_shading_step) ==
    [ step_number |-> step_number,
      phase_name |-> phase_name,
      contours |-> contours,
      is_shading_step |-> is_shading_step ]

\* min_importance is in tenths: 6 stands for 0.6
_PHASES ==
    << [ name |-> "Primary Outline", tiers |-> {"outer"},
         min_importance |-> 6, max_contours |-> 3 ],
       [ name |-> "Secondary Shapes", tiers |-> {"outer", "inner"},
         min_importance |-> 4, max_contours |-> 5 ],
       [ name |-> "Internal Details", tiers |-> {"inner"},
         min_importance |-> 2, max_contours |-> 8 ],
       [ name |-> "Fine Details", tiers |-> {"inner", "detail"},
         min_importance |-> 1, max_contours |-> 12 ],
       [ name |-> "Texture & Finishing", tiers |-> {"detail"},
         min_importance |-> 0, max_contours |-> 999 ] >>

tier_only(c, phase) == c.tier \in phase.tiers

\* the two filters of the scan: neither `continue` is taken
passes_filters(c, phase) ==
    /\ c.tier \in phase.tiers
    /\ ~ (c.importance_score * 10 < phase.min_importance * ScoreScale)

never_marked(assigned, i) == assigned

\* assigned.add(i)
mark_assigned(assigned, i) == assigned \cup {i}

batch_full_early(batch, phase) == Len(batch) + 1 >= phase.max_contours

\* the break of the scan
batch_full(batch, phase) == Len(batch) >= phase.max_contours

\* the inner loop `for i, c in enumerate(contours)` from position i on;
\* gives the batch and the assigned set at the end of the loop
RECURSIVE phase_scan(_, _, _, _, _)
phase_scan(contours, phase, i, batch, assigned) ==
    IF i >= Len(contours) THEN [ batch |-> batch, assigned |-> assigned ]
    ELSE IF i \in assigned \/ ~ passes_filters(contours[i + 1], phase)
         THEN phase_scan(contours, phase, i + 1, batch, assigned)
         ELSE LET b == Append(batch, i)
                  a == mark_assigned(assigned, i)
              IN IF batch_full(b, phase)
                 THEN [ batch |-> b, assigned |-> a ]
                 ELSE phase_scan(contours, phase, i + 1, b, a)

emit_always(st, phase_name, batch) ==
    [ steps |-> Append(st.steps, DrawingStep(st.step_num, phase_name, batch, FALSE)),
      step_num |-> st.step_num + 1 ]

\* `if batch:` / `if remaining:` - append a step and advance step_num
emit_step(st, phase_name, batch) ==
    IF batch # << >>
    THEN [ steps |-> Append(st.steps, DrawingStep(st.step_num, phase_name, batch, FALSE)),
           step_num |-> st.step_num + 1 ]
    ELSE st

\* the outer loop `for phase in _PHASES` from phase k on
RECURSIVE phase_loop(_, _, _, _)
phase_loop(contours, k, assigned, st) ==
    IF k > Len(_PHASES) THEN [ assigned |-> assigned, st |-> st ]
    ELSE LET scan == phase_scan(contours, _PHASES[k], 0, << >>, assigned)
         IN phase_loop(contours, k + 1, scan.assigned,
                       emit_step(st, _PHASES[k].name, scan.batch))

\* remaining = [contours[i] for i in range(len(contours)) if i not in assigned]
remaining_of(contours, assigned) ==
    SelectSeq([i \in 1..Len(contours) |-> i - 1], LAMBDA i : i \notin assigned)

shading_always(st, shading) ==
    Append(st.steps, DrawingStep(st.step_num, "Shading", << >>, TRUE))

\* `if include_shading:` - the trailing shading step
append_shading(st, shading) ==
    IF shading
    THEN Append(st.steps, DrawingStep(st.step_num, "Shading", << >>, TRUE))
    ELSE st.steps

without_grid_step(planned) ==
    [i \in 1..Len(planned) |-> [planned[i] EXCEPT !.step_number = @ + 1]]

\* grid_step, the re-numbering loop and `return [grid_step] + steps`
prepend_grid_step(planned) ==
    << DrawingStep(0, "Preparation", << >>, FALSE) >>
      \o [i \in 1..Len(planned) |-> [planned[i] EXCEPT !.step_number = @ + 1]]

plan_steps(contours, shading) ==
    LET phases == phase_loop(contours, 1, {}, [ steps |-> << >>, step_num |-> 1 ])
        rest == emit_step(phases.st, "Additional Details",
                          remaining_of(contours, phases.assigned))
    IN prepend_grid_step(append_shading(rest, shading))

\* total_contour_count
total_contour_count(ss) ==
    LET RECURSIVE sum(_)
        sum(k) == IF k = 0 THEN 0
                  ELSE sum(k - 1) + (IF ss[k].is_shading_step THEN 0 ELSE Len(ss[k].contours))
    IN sum(Len(ss))

----------------------------------------------------------------------------
(* tone_mapper.py *)

\* (label, low_threshold, high_threshold, mask_value)
Band(label, low, high, val) ==
    [ label |-> label, low |-> low, high |-> high, val |-> val ]

DEFAULT_BANDS_overlap ==
    << Band("deep_shadow", 0, 80, 0),
       Band("mid_tone", 81, 200, 1),
       Band("highlight", 181, 255, 2) >>

DEFAULT_BANDS ==
    << Band("deep_shadow", 0, 80, 0),
       Band("mid_tone", 81, 180, 1),
       Band("highlight", 181, 255, 2) >>

\* cv2.GaussianBlur(grayscale, (7, 7), 0) on a one-row image: for a 7-tap
\* kernel and sigma 0 OpenCV uses the fixed kernel (2 7 14 18 14 7 2) / 64,
\* the border is BORDER_REFLECT_101 and the result is rounded to uint8
GaussKernel == << 2, 7, 14, 18, 14, 7, 2 >>

RECURSIVE reflect_101(_, _)
reflect_101(j, n) ==
    IF n = 1 THEN 0
    ELSE IF j < 0 THEN reflect_101(0 - j, n)
    ELSE IF j >= n THEN reflect_101(2 * (n - 1) - j, n)
    ELSE j

RECURSIVE kernel_sum(_, _, _)
kernel_sum(gray, i, t) ==
    IF t > Len(GaussKernel) THEN 0
    ELSE GaussKernel[t] * gray[reflect_101(i + t - 4, Len(gray)) + 1]
           + kernel_sum(gray, i, t + 1)

GaussianBlur(gray) ==
    [ p \in 1..Len(gray) |-> (kernel_sum(gray, p - 1, 1) + 32) \div 64 ]

\* cv2.inRange(smoothed, low, high) at one pixel: both ends inclusive
inRange(v, low, high) == low <= v /\ v <= high

apply_band_unset_only(mask, smoothed, band) ==
    [ p \in 1..Len(mask) |->
        IF inRange(smoothed[p], band.low, band.high) /\ mask[p] = 2
        THEN band.val ELSE mask[p] ]

\* region = cv2.inRange(smoothed, low, high); mask[region > 0] = val
apply_band(mask, smoothed, band) ==
    [ p \in 1..Len(mask) |->
        IF inRange(smoothed[p], band.low, band.high) THEN band.val ELSE mask[p] ]

\* `for label, low, high, val in bands` from band k on
RECURSIVE band_loop(_, _, _, _)
band_loop(mask, smoothed, bs, k) ==
    IF k > Len(bs) THEN mask
    ELSE band_loop(apply_band(mask, smoothed, bs[k]), smoothed, bs, k + 1)

\* the mask starts as np.full((h, w), 2): default to highlight
generate_tone_mask(gray, bs) ==
    LET smoothed == GaussianBlur(gray)
    IN band_loop([ p \in 1..Len(gray) |-> 2 ], smoothed, bs, 1)

\* np.sum(mask == v)
count_of(mask, v) == Cardinality({ p \in 1..Len(mask) : mask[p] = v })

\* round(float(count) / total * 100, 1) in tenths of a percent; round() takes
\* the nearest tenth and the even one on a tie
percent_tenths(count, total) ==
    LET q == (count * 1000) \div total
        r == (count * 1000) % total
    IN IF 2 * r > total \/ (2 * r = total /\ q % 2 = 1) THEN q + 1 ELSE q

tone_summary(mask) ==
    [ deep_shadow |-> percent_tenths(count_of(mask, 0), Len(mask)),
      mid_tone |-> percent_tenths(count_of(mask, 1), Len(mask)),
      highlight |-> percent_tenths(count_of(mask, 2), Len(mask)) ]

NoTones == [ deep_shadow |-> -1, mid_tone |-> -1, highlight |-> -1 ]

\* the tone mapper has not been called
ToneIdle ==
    /\ grayscale = << >>
    /\ bands = << >>
    /\ tone_mask = << >>
    /\ tones = NoTones

----------------------------------------------------------------------------
(* blueprint_engine.py *)
(* Coordinates and distances are in thousandths of the normalised unit, an  *)
(* error e of the source is the integer e * ErrScale, the accuracy is in    *)
(* hundredths of a percent (5000 = 50.0).                                   *)

\* _IDEAL_PROPORTIONS, in thousandths
_IDEAL_PROPORTIONS ==
    [ shoulder_width |-> 300, torso_length |-> 320, upper_arm |-> 170,
      forearm |-> 170, thigh |-> 200, shin |-> 200, head_to_shoulder |-> 120 ]

\* the least common multiple of the ideal proportions: every error is a
\* whole number of 1 / ErrScale
ErrScale == 81600

pairs ==
    << << "left_shoulder", "right_shoulder", "shoulder_width" >>,
       << "left_shoulder", "left_hip", "torso_length" >>,
       << "left_shoulder", "left_elbow", "upper_arm" >>,
       << "left_elbow", "left_wrist", "forearm" >>,
       << "left_hip", "left_knee", "thigh" >>,
       << "left_knee", "left_ankle", "shin" >>,
       << "nose", "left_shoulder", "head_to_shoulder" >> >>

\* the integer square root, by bisection of lo..hi
RECURSIVE sqrt_between(_, _, _)
sqrt_between(n, lo, hi) ==
    IF lo >= hi THEN lo
    ELSE LET mid == (lo + hi + 1) \div 2
         IN IF mid * mid <= n THEN sqrt_between(n, mid, hi)
            ELSE sqrt_between(n, lo, mid - 1)

sqrt(n) == sqrt_between(n, 0, 46340)

_dist(a, b) == sqrt((a.x - b.x) * (a.x - b.x) + (a.y - b.y) * (a.y - b.y))

None == [ name |-> "None", x |-> 0, y |-> 0 ]

\* the first landmark of that name, or None
RECURSIVE _lm_by_name(_, _)
_lm_by_name(lms, name) ==
    IF lms = << >> THEN None
    ELSE IF Head(lms).name = name THEN Head(lms)
    ELSE _lm_by_name(Tail(lms), name)

Abs(v) == IF v < 0 THEN 0 - v ELSE v

pair_error_unclamped(a, b, key) ==
    Abs(_dist(a, b) - _IDEAL_PROPORTIONS[key]) * (ErrScale \div _IDEAL_PROPORTIONS[key])

\* min(abs(measured - ideal) / max(ideal, 1e-6), 1.0)
pair_error(a, b, key) ==
    Min(Abs(_dist(a, b) - _IDEAL_PROPORTIONS[key]) * (ErrScale \div _IDEAL_PROPORTIONS[key]),
        ErrScale)

errors_of_pair_penalised(lms, pair) ==
    LET a == _lm_by_name(lms, pair[1])
        b == _lm_by_name(lms, pair[2])
    IN IF a = None \/ b = None THEN << ErrScale >>
       ELSE << pair_error(a, b, pair[3]) >>

\* the body of the loop over the pairs: what it appends to errors
errors_of_pair(lms, pair) ==
    LET a == _lm_by_name(lms, pair[1])
        b == _lm_by_name(lms, pair[2])
    IN IF a = None \/ b = None THEN << >>
       ELSE << pair_error(a, b, pair[3]) >>

RECURSIVE errors_from(_, _)
errors_from(lms, k) ==
    IF k > Len(pairs) THEN << >>
    ELSE errors_of_pair(lms, pairs[k]) \o errors_from(lms, k + 1)

RECURSIVE sum_of(_)
sum_of(xs) == IF xs = << >> THEN 0 ELSE Head(xs) + sum_of(Tail(xs))

\* round(num / den * 100, 2) in hundredths of a percent: long division by
\* hundreds, then the nearest hundredth (the even one on a tie)
percent_hundredths(num, den) ==
    LET q0 == num \div den
        r0 == num % den
        q1 == (100 * r0) \div den
        r1 == (100 * r0) % den
        q2 == (100 * r1) \div den
        r2 == (100 * r1) % den
        q == 10000 * q0 + 100 * q1 + q2
    IN IF 2 * r2 > den \/ (2 * r2 = den /\ q % 2 = 1) THEN q + 1 ELSE q

finish_score_no_fallback(errors) ==
    IF errors = << >> THEN 0
    ELSE percent_hundredths(Len(errors) * ErrScale - sum_of(errors), Len(errors) * ErrScale)

\* `if not errors: return 50.0`, else round((1.0 - sum / len) * 100, 2)
finish_score(errors) ==
    IF errors = << >> THEN 5000
    ELSE percent_hundredths(Len(errors) * ErrScale - sum_of(errors), Len(errors) * ErrScale)

_score_proportions(lms) == finish_score(errors_from(lms, 1))

\* the scorer has not been called
ScoreIdle ==
    /\ landmarks = << >>
    /\ accuracy = -1

----------------------------------------------------------------------------
(* canvas_renderer.py *)
(* A canvas is the record of what render_step drew on the white sheet: the  *)
(* grid, the polylines of the previous and of the new contours in canvas    *)
(* pixels, the hatch overlay, the marker and the label.  A normalised point *)
(* is << xn, xd, yn, yd >>, standing for (xn / xd, yn / yd); image_aspect   *)
(* is << width, height >>, standing for width / height.  int() of a float   *)
(* that is not negative is its integer part, \div on the exact quotient;    *)
(* the inputs are chosen so that the float and the exact quotient have the  *)
(* same integer part.                                                       *)

PAPER_SIZES ==
    [ A4 |-> << 1240, 1754 >>,
      A3 |-> << 1754, 2480 >>,
      square |-> << 1500, 1500 >> ]

\* the default of grid_cells
GRID_CELLS == 8

\* start_centroid = None
NoCentroid == << >>

\* shading_mask = None
NoMask == << >>

NoOverlay == [ drawn |-> FALSE ]

NoMarker == << >>

\* size = PAPER_SIZES.get(paper_size, PAPER_SIZES["A4"])
size_of(size_name) ==
    IF size_name \in DOMAIN PAPER_SIZES THEN PAPER_SIZES[size_name] ELSE PAPER_SIZES["A4"]

\* the position of grid line i of _draw_grid, i in 0..grid_cells, on an
\* axis where the drawing area starts at `start` and is `extent` long:
\* x = mx + int(i * draw_w / grid_cells), y likewise
grid_line(i, start, extent, grid_cells) == start + (i * extent) \div grid_cells

\* _draw_grid with margin_fraction 0.05: the grid drawn, held as its number
\* of cells and the drawing area (x_start, y_start, x_end, y_end) returned
_draw_grid(size, grid_cells) ==
    LET w == size[1]
        h == size[2]
        mx == (w * 5) \div 100
        my == (h * 5) \div 100
        draw_w == w - 2 * mx
        draw_h == h - 2 * my
    IN [ cells |-> grid_cells,
         draw_area |-> << mx, my, mx + draw_w, my + draw_h >> ]

footprint_fit_height(draw_area, aspect) ==
    LET x_start == draw_area[1]
        y_start == draw_area[2]
        area_w == draw_area[3] - draw_area[1]
        area_h == draw_area[4] - draw_area[2]
        render_w == (area_h * aspect[1]) \div aspect[2]
        render_h == area_h
    IN [ render_w |-> render_w,
         render_h |-> render_h,
         offset_x |-> x_start + (area_w - render_w) \div 2,
         offset_y |-> y_start + (area_h - render_h) \div 2 ]

\* the footprint computed by _normalised_to_canvas: render size and offsets
footprint(draw_area, aspect) ==
    LET x_start == draw_area[1]
        y_start == draw_area[2]
        area_w == draw_area[3] - draw_area[1]
        area_h == draw_area[4] - draw_area[2]
        wider == aspect[1] * area_h > area_w * aspect[2]
        render_w == IF wider THEN area_w ELSE (area_h * aspect[1]) \div aspect[2]
        render_h == IF wider THEN (area_w * aspect[2]) \div aspect[1] ELSE area_h
    IN [ render_w |-> render_w,
         render_h |-> render_h,
         offset_x |-> x_start + (area_w - render_w) \div 2,
         offset_y |-> y_start + (area_h - render_h) \div 2 ]

\* scaled = points.copy(); the two assignments; scaled.astype(np.int32)
_normalised_to_canvas(points, draw_area, aspect) ==
    LET f == footprint(draw_area, aspect)
    IN [ p \in 1..Len(points) |->
           << (points[p][1] * f.render_w) \div points[p][2] + f.offset_x,
              (points[p][3] * f.render_h) \div points[p][4] + f.offset_y >> ]

array_after_scaling_in_place(points, scaled) ==
    [ p \in 1..Len(scaled) |-> << scaled[p][1], 1, scaled[p][2], 1 >> ]

\* the caller's array when _normalised_to_canvas returns: the assignments
\* go to the copy made by points.copy()
array_after_scaling(points, scaled) == points

\* _draw_contours: one closed polyline per contour
_draw_contours(point_arrays, draw_area, aspect) ==
    [ c \in 1..Len(point_arrays) |-> _normalised_to_canvas(point_arrays[c], draw_area, aspect) ]

\* _draw_start_marker: the centre (cx, cy) of the ring, the dot and the text
_draw_start_marker(start_centroid, draw_area, aspect) ==
    _normalised_to_canvas(<< start_centroid >>, draw_area, aspect)[1]

overlay_footprint_uncentred(draw_area, aspect) ==
    LET x_start == draw_area[1]
        y_start == draw_area[2]
        area_w == draw_area[3] - draw_area[1]
        area_h == draw_area[4] - draw_area[2]
        wider == aspect[1] * area_h > area_w * aspect[2]
        render_w == IF wider THEN area_w ELSE (area_h * aspect[1]) \div aspect[2]
        render_h == IF wider THEN (area_w * aspect[2]) \div aspect[1] ELSE area_h
    IN [ render_w |-> render_w,
         render_h |-> render_h,
         offset_x |-> x_start,
         offset_y |-> y_start ]

\* the footprint computed by _overlay_shading, with its own statements
overlay_footprint(draw_area, aspect) ==
    LET x_start == draw_area[1]
        y_start == draw_area[2]
        area_w == draw_area[3] - draw_area[1]
        area_h == draw_area[4] - draw_area[2]
        wider == aspect[1] * area_h > area_w * aspect[2]
        render_w == IF wider THEN area_w ELSE (area_h * aspect[1]) \div aspect[2]
        render_h == IF wider THEN (area_w * aspect[2]) \div aspect[1] ELSE area_h
    IN [ render_w |-> render_w,
         render_h |-> render_h,
         offset_x |-> x_start + (area_w - render_w) \div 2,
         offset_y |-> y_start + (area_h - render_h) \div 2 ]

\* mask_resized[y, x] for a mask of one row: cv2.resize with INTER_NEAREST
\* takes the source pixel floor(x * width / render_w)
mask_resized(mask, render_w, x) == mask[(x * Len(mask)) \div render_w + 1]

\* _overlay_shading: the hatch is the footprint and the mask; the loops
\* visit the rows 0..render_h-1 and the columns 0, 3, 6, ... below render_w
_overlay_shading(mask, draw_area, aspect) ==
    LET f == overlay_footprint(draw_area, aspect)
    IN [ drawn |-> TRUE,
         render_w |-> f.render_w,
         render_h |-> f.render_h,
         offset_x |-> f.offset_x,
         offset_y |-> f.offset_y,
         mask |-> mask ]

\* the grey written by the loops of _overlay_shading at row y and column x
\* of the footprint, which is canvas[offset_y + y, offset_x + x]; 255 where
\* they write nothing
hatch_at(overlay, x, y) ==
    IF x % 3 # 0 THEN 255
    ELSE LET val == mask_resized(overlay.mask, overlay.render_w, x)
         IN IF val = 0 THEN (IF (x + y) % 6 < 3 THEN 180 ELSE 255)
            ELSE IF val = 1 THEN (IF (x + y) % 10 < 2 THEN 210 ELSE 255)
            ELSE 255

\* render_step without the save; the contours are given by their point arrays
render_step(step_number, phase_name, previous_points, new_points, aspect, start_centroid, shading_mask, size_name, grid_cells) ==
    LET size == size_of(size_name)
        grid == _draw_grid(size, grid_cells)
        draw_area == grid.draw_area
    IN [ size |-> size,
         grid |-> grid,
         previous |-> _draw_contours(previous_points, draw_area, aspect),
         new |-> _draw_contours(new_points, draw_area, aspect),
         overlay |-> IF shading_mask # NoMask
                     THEN _overlay_shading(shading_mask, draw_area, aspect)
                     ELSE NoOverlay,
         marker |-> IF start_centroid # NoCentroid /\ step_number <= 1
                    THEN _draw_start_marker(start_centroid, draw_area, aspect)
                    ELSE NoMarker,
         label |-> << step_number, phase_name >> ]

----------------------------------------------------------------------------
(* step_generator.py *)
(* A call of generate_drawing_steps is a record of its locals, named as in *)
(* the source, with `stage` the statement it executes next and `rendered`  *)
(* the calls of render_step it has made.  A path under STEPS_OUTPUT_DIR is *)
(* the pair << session id, file name >>.                                    *)

Runs == 1..MaxRuns

\* values uuid.uuid4().hex[:12] may return
SessionIds == { "0a1b2c3d4e5f", "f5e4d3c2b1a0" }

NoSession == "unset"

RECURSIVE digits_of(_)
digits_of(n) == IF n < 10 THEN << n >> ELSE digits_of(n \div 10) \o << n % 10 >>

\* the format spec :02d, as a sequence of decimal digits
format_02d(n) == IF n < 10 THEN << 0, n >> ELSE digits_of(n)

\* filename = f"step_{step.step_number:02d}.png"
filename_of(step) == << "step_", format_02d(step.step_number), ".png" >>

\* output_path = str(session_dir / filename)
output_path_of(session_id, filename) == << session_id, filename >>

StepResult_counting_previous(step, filename, session_id, previous) ==
    [ step_number |-> step.step_number,
      phase_name |-> step.phase_name,
      image_filename |-> filename,
      image_url |-> << "/static/steps", session_id, filename >>,
      new_contour_count |-> Len(step.contours),
      total_contours_so_far |-> Len(previous),
      is_shading_step |-> step.is_shading_step ]

\* StepResult(...), with total_so_far = len(all_previous_contours) +
\* len(step.contours)
StepResult(step, filename, session_id, previous) ==
    [ step_number |-> step.step_number,
      phase_name |-> step.phase_name,
      image_filename |-> filename,
      image_url |-> << "/static/steps", session_id, filename >>,
      new_contour_count |-> Len(step.contours),
      total_contours_so_far |-> Len(previous) + Len(step.contours),
      is_shading_step |-> step.is_shading_step ]

\* primary_centroid = contours[0].centroid if contours else (0.5, 0.5)
primary_centroid(hierarchy, contours) ==
    IF contours # << >> THEN centroid(hierarchy, contours[1]) ELSE << 1, 2, 1, 2 >>

shading_for_every_step(step, mask) == mask

\* shading = tone_mask if step.is_shading_step else None
shading_for(step, mask) == IF step.is_shading_step THEN mask ELSE NoMask

\* a call of render_step: its arguments and the canvas it drew
RenderCall(step, previous, start_centroid, shading, output_path, canvas) ==
    [ step_number |-> step.step_number,
      phase_name |-> step.phase_name,
      previous_contours |-> previous,
      new_contours |-> step.contours,
      start_centroid |-> start_centroid,
      shading_mask |-> shading,
      output_path |-> output_path,
      canvas |-> canvas ]

extend_replacing(previous, contours) == contours

\* all_previous_contours.extend(step.contours)
extend(previous, contours) == previous \o contours

after_dir_first(stage) ==
    CASE stage = "preprocess" -> "analyze"
      [] stage = "analyze" -> "plan"
      [] stage = "plan" -> "mkdir"
      [] stage = "mkdir" -> "tone"
      [] stage = "tone" -> "render"
      [] stage = "render" -> "returned"

\* the statement that follows: preprocess, analyze_contours, plan_steps,
\* generate_tone_mask and tone_summary, session_dir.mkdir, the loop, return
after(stage) ==
    CASE stage = "preprocess" -> "analyze"
      [] stage = "analyze" -> "plan"
      [] stage = "plan" -> "tone"
      [] stage = "tone" -> "mkdir"
      [] stage = "mkdir" -> "render"
      [] stage = "render" -> "returned"

\* a call that has not executed a statement yet
NewRun ==
    [ stage |-> "preprocess",
      image_aspect |-> << 0, 0 >>,
      contours |-> << >>,
      steps |-> << >>,
      tone_mask |-> << >>,
      tones |-> NoTones,
      session_id |-> NoSession,
      all_previous_contours |-> << >>,
      step_results |-> << >>,
      rendered |-> << >>,
      error |-> "none" ]

\* map_shading has not been called: a list no call returns (region ids are
\* never negative)
NotMapped ==
    << [ region_id |-> -1, label |-> "unset", intensity_range |-> << 0, 0 >>,
         pixel_count |-> 0, bounding_box |-> [ x_min |-> 0, x_max |-> 0 ] ] >>

ShadeIdle == regions = NotMapped

\* render_step has not been called on its own
RenderIdle ==
    /\ paper_size = "unset"
    /\ image_aspect = << 0, 0 >>
    /\ shapes = << >>
    /\ calls = << >>

\* generate_drawing_steps has not been called
RunIdle ==
    /\ run = << >>
    /\ dirs = {}
    /\ files = {}
    /\ writes = {}
    /\ faults = 0

----------------------------------------------------------------------------
(* Inputs: the contours and hierarchy cv2.findContours(RETR_TREE) can give *)

\* a row of the hierarchy (parent = hierarchy[0, idx, 3]) with cv2.contourArea
\* and cv2.arcLength of the contour
RawRow(parents) ==
    [ parent : parents, area_px : AreaPxVals, perimeter_px : PerimPxVals ]

\* a forest: a parent comes before its children and encloses them
IsForest(h) ==
    \A i \in 1..Len(h) :
        /\ h[i].parent < i - 1
        /\ h[i].parent # -1 => h[i].area_px <= h[h[i].parent + 1].area_px

\* every forest of at most MaxContours contours
SmallInputs ==
    UNION { { h \in [1..n -> RawRow(-1..(n - 2))] : IsForest(h) } : n \in 0..MaxContours }

\* a chain of `depth` nested contours, the innermost holding `width` siblings
CombInput(depth, width, chain, wide) ==
    [ i \in 1..(depth + width) |->
        IF i <= depth
        THEN [ parent |-> i - 2, area_px |-> chain.area_px,
               perimeter_px |-> chain.perimeter_px ]
        ELSE [ parent |-> depth - 1, area_px |-> wide.area_px,
               perimeter_px |-> wide.perimeter_px ] ]

Measures == [ area_px : AreaPxVals, perimeter_px : PerimPxVals ]

CombInputs ==
    { CombInput(d, n, c, w) :
        <<d, n, c, w>> \in { t \in (0..MaxDepth) \X (1..MaxWidth) \X Measures \X Measures :
                               t[4].area_px <= t[3].area_px } }

----------------------------------------------------------------------------
(* generate_drawing_steps, steps 2 and 3 *)

Init ==
    /\ pc = "start"
    /\ raw \in SmallInputs \cup CombInputs
    /\ include_shading \in BOOLEAN
    /\ analyzed = << >>
    /\ steps = << >>
    /\ ToneIdle
    /\ ScoreIdle
    /\ RunIdle
    /\ ShadeIdle
    /\ RenderIdle

\* contours = analyze_contours(processed["edges"])
AnalyzeContours ==
    /\ pc = "start"
    /\ analyzed' = analyze_contours(raw)
    /\ pc' = "analyzed"
    /\ UNCHANGED <<raw, include_shading, steps>>
    /\ UNCHANGED <<toneVars, scoreVars, runVars, shadeVars, renderVars>>

\* steps = plan_steps(contours, include_shading=include_shading)
PlanSteps ==
    /\ pc = "analyzed"
    /\ steps' = plan_steps(analyzed, include_shading)
    /\ pc' = "planned"
    /\ UNCHANGED <<raw, include_shading, analyzed>>
    /\ UNCHANGED <<toneVars, scoreVars, runVars, shadeVars, renderVars>>

Next == AnalyzeContours \/ PlanSteps

Spec == Init /\ [][Next]_vars

----------------------------------------------------------------------------
(* Helpers of the properties *)

Analyzed == pc \in {"analyzed", "planned"}
Planned == pc = "planned"

StepNames == [k \in 1..Len(steps) |-> steps[k].phase_name]

HasStep(name) == \E k \in 1..Len(steps) : steps[k].phase_name = name

\* the places (step, position in its batch) of the non-shading steps that hold shape i
PlacesOf(i) ==
    { p \in UNION { {k} \X (1..Len(steps[k].contours)) : k \in 1..Len(steps) } :
        /\ ~ steps[p[1]].is_shading_step
        /\ steps[p[1]].contours[p[2]] = i }

PhaseOrder ==
    << "Preparation", "Primary Outline", "Secondary Shapes", "Internal Details",
       "Fine Details", "Texture & Finishing", "Additional Details", "Shading" >>

PhasePos(name) == CHOOSE k \in 1..Len(PhaseOrder) : PhaseOrder[k] = name

----------------------------------------------------------------------------
(* Properties *)

\* C1: plan_steps places every shape of its input in exactly one non-shading
\* step's batch: the batch sizes of the non-shading steps sum to the input
\* length and every input index occurs in exactly one place.
C1_EveryShapeExactlyOnce ==
    Planned =>
        /\ total_contour_count(steps) = Len(analyzed)
        /\ \A i \in 0..(Len(analyzed) - 1) : Cardinality(PlacesOf(i)) = 1

C1_Witness ==
    /\ Planned
    /\ Len(analyzed) >= 6
    /\ HasStep("Secondary Shapes")
    /\ HasStep("Additional Details")

\* C2: the step at position i of the returned list has step_number i
\* (0-based), without gaps or repeats.
C2_StepNumbersContiguous ==
    Planned => \A k \in 1..Len(steps) : steps[k].step_number = k - 1

\* C3: plan_steps never returns an empty list; its first element is the
\* Preparation step, numbered 0, with an empty batch; for an empty input the
\* result is [Preparation], or [Preparation, Shading] with shading.
C3_PreparationAlwaysFirst ==
    Planned =>
        /\ Len(steps) >= 1
        /\ steps[1].phase_name = "Preparation"
        /\ steps[1].step_number = 0
        /\ steps[1].contours = << >>
        /\ ~ steps[1].is_shading_step
        /\ analyzed = << >> =>
              IF include_shading
              THEN /\ StepNames = << "Preparation", "Shading" >>
                   /\ steps[2].is_shading_step
                   /\ steps[2].contours = << >>
              ELSE StepNames = << "Preparation" >>

C3_Witness ==
    /\ Planned
    /\ raw # << >>
    /\ analyzed = << >>
    /\ include_shading
    /\ Len(steps) = 2

\* C4: the phase names of the returned steps are an order-preserving sub-list
\* of PhaseOrder (each at most once), Preparation is present, and a step
\* flagged is_shading_step exists iff include_shading, in which case it is the
\* single last step, named Shading, with an empty batch.
C4_PhaseOrderSublist ==
    Planned =>
        /\ \A k \in 1..Len(steps) : steps[k].phase_name \in Range(PhaseOrder)
        /\ \A j, k \in 1..Len(steps) :
              j < k => PhasePos(steps[j].phase_name) < PhasePos(steps[k].phase_name)
        /\ HasStep("Preparation")
        /\ (\E k \in 1..Len(steps) : steps[k].is_shading_step) <=> include_shading
        /\ \A k \in 1..Len(steps) :
              steps[k].is_shading_step =>
                  /\ k = Len(steps)
                  /\ steps[k].phase_name = "Shading"
                  /\ steps[k].contours = << >>
        /\ \A k \in 1..Len(steps) :
              steps[k].phase_name = "Shading" => steps[k].is_shading_step

C4_Witness ==
    /\ Planned
    /\ ~ include_shading
    /\ Len(steps) >= 4
    /\ HasStep("Additional Details")

\* the phase a step is named after, as the spec states it
PhaseTiers(name) ==
    CASE name = "Primary Outline" -> {"outer"}
      [] name = "Secondary Shapes" -> {"outer", "inner"}
      [] name = "Internal Details" -> {"inner"}
      [] name = "Fine Details" -> {"inner", "detail"}
      [] name = "Texture & Finishing" -> {"detail"}

PhaseMinTenths(name) ==
    CASE name = "Primary Outline" -> 6
      [] name = "Secondary Shapes" -> 4
      [] name = "Internal Details" -> 2
      [] name = "Fine Details" -> 1
      [] name = "Texture & Finishing" -> 0

PhaseMaxBatch(name) ==
    CASE name = "Primary Outline" -> 3
      [] name = "Secondary Shapes" -> 5
      [] name = "Internal Details" -> 8
      [] name = "Fine Details" -> 12
      [] name = "Texture & Finishing" -> 999

FivePhases ==
    { "Primary Outline", "Secondary Shapes", "Internal Details", "Fine Details",
      "Texture & Finishing" }

\* C5: every shape of a step named after one of the five phases has a tier the
\* phase allows and an importance of at least the phase's threshold, and the
\* batch holds at most the phase's maximum (3, 5, 8, 12, 999).
C5_PhaseFiltersRespected ==
    Planned =>
        \A k \in 1..Len(steps) :
            steps[k].phase_name \in FivePhases =>
                /\ Len(steps[k].contours) <= PhaseMaxBatch(steps[k].phase_name)
                /\ \A j \in 1..Len(steps[k].contours) :
                      LET c == analyzed[steps[k].contours[j] + 1]
                      IN /\ c.tier \in PhaseTiers(steps[k].phase_name)
                         /\ c.importance_score * 10
                              >= PhaseMinTenths(steps[k].phase_name) * ScoreScale

\* an outer shape under 0.6 was kept out of Primary Outline, and the Internal
\* Details and Fine Details batches are full
C5_Witness ==
    /\ Planned
    /\ \E k \in 1..Len(steps) :
          /\ steps[k].phase_name = "Internal Details"
          /\ Len(steps[k].contours) = 8
    /\ \E k \in 1..Len(steps) :
          /\ steps[k].phase_name = "Fine Details"
          /\ Len(steps[k].contours) = 12
    /\ \E i \in 1..Len(analyzed) :
          /\ analyzed[i].tier = "outer"
          /\ analyzed[i].importance_score * 10 < 6 * ScoreScale

\* C6: a returned step has an empty batch only if it is the Preparation step
\* or the Shading step.
C6_OnlySyntheticStepsEmpty ==
    Planned =>
        \A k \in 1..Len(steps) :
            steps[k].contours = << >> =>
                \/ k = 1 /\ steps[k].phase_name = "Preparation"
                \/ steps[k].is_shading_step

\* some phase gathered nothing, and no step stands for it
C6_Witness ==
    /\ Planned
    /\ analyzed # << >>
    /\ ~ HasStep("Primary Outline")
    /\ ~ HasStep("Additional Details")
    /\ HasStep("Fine Details")
    /\ Len(steps) >= 3

\* the one shape of scenario A is large: it covers a tenth of the image or more
LargeOuterAlone ==
    /\ Len(analyzed) = 1
    /\ analyzed[1].depth = 0
    /\ analyzed[1].tier = "outer"
    /\ analyzed[1].area * 10 >= ImageArea
    /\ \A i \in 1..Len(raw) : raw[i].parent = -1

\* C7: for exactly one large outer shape at depth 0 and shading enabled,
\* plan_steps returns 3 steps: Preparation (step 0), Primary Outline (step 1)
\* holding that shape, Shading (step 2).
C7_ScenarioA ==
    (Planned /\ LargeOuterAlone /\ include_shading) =>
        steps = << DrawingStep(0, "Preparation", << >>, FALSE),
                   DrawingStep(1, "Primary Outline", << 0 >>, FALSE),
                   DrawingStep(2, "Shading", << >>, TRUE) >>

\* C8: the tier of every analysed shape is fixed by its depth: 0 outer,
\* 1 or 2 inner, 3 or more detail; the depth is never negative.
C8_TierFromDepth ==
    Analyzed =>
        \A i \in 1..Len(analyzed) :
            /\ analyzed[i].depth >= 0
            /\ analyzed[i].depth = 0 => analyzed[i].tier = "outer"
            /\ analyzed[i].depth \in {1, 2} => analyzed[i].tier = "inner"
            /\ analyzed[i].depth >= 3 => analyzed[i].tier = "detail"

C8_Witness ==
    /\ Analyzed
    /\ \A d \in 0..4 : \E i \in 1..Len(analyzed) : analyzed[i].depth = d

\* C9: the importance score lies in [0, 1] for every depth >= 0 and every
\* non-negative area and perimeter, however large.
C9_ImportanceInUnitInterval ==
    Analyzed =>
        \A i \in 1..Len(analyzed) :
            /\ analyzed[i].importance_score >= 0
            /\ analyzed[i].importance_score <= ScoreScale

\* a shape deeper than 5 and a shape over both caps
C9_Witness ==
    /\ Analyzed
    /\ \E i \in 1..Len(analyzed) : analyzed[i].depth > 5
    /\ \E i \in 1..Len(analyzed) :
          /\ analyzed[i].area * 10 > ImageArea
          /\ analyzed[i].perimeter * 2 > MaxDim

\* C10: the list returned by analyze_contours is in non-increasing importance
\* order, and shapes of equal importance keep their extraction order.
C10_SortedDescendingStable ==
    Analyzed =>
        \A i, j \in 1..Len(analyzed) :
            i < j =>
                /\ analyzed[i].importance_score >= analyzed[j].importance_score
                /\ analyzed[i].importance_score = analyzed[j].importance_score
                      => analyzed[i].idx < analyzed[j].idx

\* the sort moved a later contour to the front, and two shapes tie
C10_Witness ==
    /\ Analyzed
    /\ \E i, j \in 1..Len(analyzed) :
          i < j /\ analyzed[i].importance_score = analyzed[j].importance_score
    /\ \E i, j \in 1..Len(analyzed) : i < j /\ analyzed[i].idx > analyzed[j].idx

\* the batch of the step of that name, empty when the plan has no such step
BatchOf(name) ==
    IF HasStep(name)
    THEN steps[CHOOSE k \in 1..Len(steps) : steps[k].phase_name = name].contours
    ELSE << >>

\* the shapes already batched when the scan for `name` starts
Earlier(name) ==
    UNION { Range(steps[k].contours) :
              k \in { j \in 1..Len(steps) :
                        /\ ~ steps[j].is_shading_step
                        /\ PhasePos(steps[j].phase_name) < PhasePos(name) } }

Qualifies(c, name) ==
    /\ c.tier \in PhaseTiers(name)
    /\ c.importance_score * 10 >= PhaseMinTenths(name) * ScoreScale

\* the unassigned shapes that pass the filters of the phase
Candidates(name) ==
    { i \in 0..(Len(analyzed) - 1) :
        i \notin Earlier(name) /\ Qualifies(analyzed[i + 1], name) }

Ascending(batch) == \A a, b \in 1..Len(batch) : a < b => batch[a] < batch[b]

\* C24: the batch of a phase is exactly the first min(max batch size, number
\* of candidates) candidates in ranked order, a candidate being a shape that is
\* unassigned when the phase starts and passes its tier and threshold filter;
\* every batch, Additional Details included, keeps the ranked order.
C24_BatchIsFirstCandidates ==
    Planned =>
        /\ \A name \in FivePhases :
              LET batch == BatchOf(name)
                  cand == Candidates(name)
              IN /\ Range(batch) \subseteq cand
                 /\ Len(batch) = Min(PhaseMaxBatch(name), Cardinality(cand))
                 /\ \A i \in cand \ Range(batch) : \A j \in Range(batch) : j < i
        /\ Range(BatchOf("Additional Details"))
              = (0..(Len(analyzed) - 1)) \ Earlier("Additional Details")
        /\ \A k \in 1..Len(steps) : Ascending(steps[k].contours)

\* a phase has more candidates than its maximum, and a phase takes shapes the
\* phases before it have passed over
C24_Witness ==
    /\ Planned
    /\ \E name \in FivePhases :
          Cardinality(Candidates(name)) > PhaseMaxBatch(name)
    /\ \E name \in FivePhases :
          \E i \in Range(BatchOf(name)) :
              \E j \in 0..(Len(analyzed) - 1) : j < i /\ j \notin Earlier(name)
                                                  /\ j \notin Range(BatchOf(name))

\* C29: every analyzed shape passes the filter of at least one phase: an
\* outer shape scores at least 0.5 and passes Secondary Shapes, an inner shape
\* at least 0.3 and passes Internal Details, a detail shape at least 0 and
\* passes Texture & Finishing; a shape in Additional Details qualifies for
\* full phases only.
C29_EveryShapeQualifiesSomewhere ==
    Planned =>
        /\ \A i \in 1..Len(analyzed) :
              LET c == analyzed[i]
              IN /\ c.tier = "outer" =>
                       /\ c.importance_score * 10 >= 5 * ScoreScale
                       /\ Qualifies(c, "Secondary Shapes")
                 /\ c.tier = "inner" =>
                       /\ c.importance_score * 10 >= 3 * ScoreScale
                       /\ Qualifies(c, "Internal Details")
                 /\ c.tier = "detail" =>
                       /\ c.importance_score >= 0
                       /\ Qualifies(c, "Texture & Finishing")
        /\ \A i \in Range(BatchOf("Additional Details")) :
              \A name \in FivePhases :
                  Qualifies(analyzed[i + 1], name)
                      => Len(BatchOf(name)) = PhaseMaxBatch(name)

\* a shape was left for Additional Details that qualifies for two phases,
\* Primary Outline and Secondary Shapes
C29_Witness ==
    /\ Planned
    /\ \E i \in Range(BatchOf("Additional Details")) :
          /\ Qualifies(analyzed[i + 1], "Primary Outline")
          /\ Qualifies(analyzed[i + 1], "Secondary Shapes")

----------------------------------------------------------------------------
(* The tone mapper on its own: generate_tone_mask, then tone_summary *)

PlanIdle ==
    /\ raw = << >>
    /\ include_shading = FALSE
    /\ analyzed = << >>
    /\ steps = << >>

\* intensities around the default thresholds
GrayVals == {0, 80, 81, 180, 181, 200, 255}

\* every one-pixel image, and every row of 2..MaxPixels pixels over GrayVals
GrayInputs ==
    { << v >> : v \in 0..255 }
      \cup UNION { [1..n -> GrayVals] : n \in 2..MaxPixels }

\* bands a caller may supply: overlapping, nested, empty (low > high) ranges,
\* and mask values beyond the three default ones
CustomBands ==
    { Band("custom", low, high, val) :
        low \in {0, 100}, high \in {50, 150, 255}, val \in {0, 1, 3} }

\* images for the caller-supplied tables: one pixel, and full rows of dark and
\* light pixels
CustomGrays == { << v >> : v \in {0, 100, 200} } \cup [1..MaxPixels -> {0, 200}]

CustomTables == UNION { [1..n -> CustomBands] : n \in 0..MaxBands }

ToneInit ==
    /\ pc = "tone_start"
    /\ \/ /\ bands = DEFAULT_BANDS
          /\ grayscale \in GrayInputs
       \/ /\ bands \in CustomTables
          /\ grayscale \in CustomGrays
    /\ tone_mask = << >>
    /\ tones = NoTones
    /\ PlanIdle
    /\ ScoreIdle
    /\ RunIdle
    /\ ShadeIdle
    /\ RenderIdle

\* tone_mask = generate_tone_mask(grayscale, bands)
GenerateToneMask ==
    /\ pc = "tone_start"
    /\ tone_mask' = generate_tone_mask(grayscale, bands)
    /\ pc' = "tone_masked"
    /\ UNCHANGED <<grayscale, bands, tones>>
    /\ UNCHANGED <<planVars, scoreVars, runVars, shadeVars, renderVars>>

\* tones = tone_summary(tone_mask)
ToneSummary ==
    /\ pc = "tone_masked"
    /\ tones' = tone_summary(tone_mask)
    /\ pc' = "tone_summarised"
    /\ UNCHANGED <<grayscale, bands, tone_mask>>
    /\ UNCHANGED <<planVars, scoreVars, runVars, shadeVars, renderVars>>

ToneNext == GenerateToneMask \/ ToneSummary

ToneSpec == ToneInit /\ [][ToneNext]_vars

Masked == pc \in {"tone_masked", "tone_summarised"}
Summarised == pc = "tone_summarised"

\* the bands of the table whose range holds intensity v
BandsHolding(v) == { k \in 1..Len(bands) : bands[k].low <= v /\ v <= bands[k].high }

SetMax(S) == CHOOSE m \in S : \A x \in S : x <= m

\* C11: a pixel's mask value is the mask_value of the last band of the table
\* whose [low, high] holds the pixel's smoothed intensity, and 2 when no band
\* holds it.
C11_LastBandWins ==
    Masked =>
        /\ Len(tone_mask) = Len(grayscale)
        /\ \A p \in 1..Len(tone_mask) :
              LET holding == BandsHolding(GaussianBlur(grayscale)[p])
              IN tone_mask[p] = IF holding = {} THEN 2
                                ELSE bands[SetMax(holding)].val

\* two bands with different values hold the same pixel, another pixel is in no band
C11_Witness ==
    /\ Masked
    /\ \E p \in 1..Len(tone_mask) :
          \E j, k \in BandsHolding(GaussianBlur(grayscale)[p]) :
              j < k /\ bands[j].val # bands[k].val /\ bands[j].val # 2
    /\ \E p \in 1..Len(tone_mask) : BandsHolding(GaussianBlur(grayscale)[p]) = {}

\* C12: under the default table every intensity 0..255 lies in exactly one
\* band and every pixel gets exactly one of 0 (0-80), 1 (81-180), 2 (181-255);
\* an image entirely at intensity 200 is 100% highlight, 0% deep_shadow, 0%
\* mid_tone.
C12_DefaultBandsTotalExclusive ==
    (Masked /\ bands = DEFAULT_BANDS) =>
        /\ \A p \in 1..Len(tone_mask) :
              LET v == GaussianBlur(grayscale)[p]
              IN /\ v \in 0..255
                 /\ Cardinality(BandsHolding(v)) = 1
                 /\ v \in 0..80 => tone_mask[p] = 0
                 /\ v \in 81..180 => tone_mask[p] = 1
                 /\ v \in 181..255 => tone_mask[p] = 2
        /\ (Summarised /\ \A p \in 1..Len(grayscale) : grayscale[p] = 200) =>
              tones = [ deep_shadow |-> 0, mid_tone |-> 0, highlight |-> 1000 ]

\* an image of several pixels, all at 200, has been summarised
C12_Witness ==
    /\ Summarised
    /\ bands = DEFAULT_BANDS
    /\ Len(grayscale) >= 2
    /\ \A p \in 1..Len(grayscale) : grayscale[p] = 200
    /\ tones.highlight = 1000

\* C13: for every mask generate_tone_mask produces, with the default or any
\* caller-supplied band table, the percentages of tone_summary sum to 100
\* within rounding tolerance (each of the three is rounded to 0.1).
C13_SummarySumsTo100 ==
    Summarised =>
        LET total == tones.deep_shadow + tones.mid_tone + tones.highlight
        IN 998 <= total /\ total <= 1002

----------------------------------------------------------------------------
(* The proportion scorer on its own *)

ScoredNames ==
    { "nose", "left_shoulder", "right_shoulder", "left_elbow", "left_wrist",
      "left_hip", "left_knee", "left_ankle" }

Landmark(name, x, y) == [ name |-> name, x |-> x, y |-> y ]

\* points of short landmark lists, some of them outside the unit square
PointVals ==
    { <<500, 100>>, <<500, 160>>, <<500, 220>>, <<800, 220>>, <<140, 700>>,
      <<-1500, 220>>, <<500, 3220>> }

ShortLists ==
    UNION { [1..n -> { Landmark(nm, pt[1], pt[2]) :
                         nm \in ScoredNames \cup {"right_hip"}, pt \in PointVals }]
            : n \in 0..MaxLandmarks }

\* a standing figure of ideal proportions, in thousandths; the upper body is
\* scaled by up / 10 and the lower body by low / 10
Figure(up, low) ==
    << Landmark("nose", 0, 10 * up),
       Landmark("left_shoulder", 0, 22 * up),
       Landmark("right_shoulder", 18 * up, 46 * up),
       Landmark("left_elbow", 0, 39 * up),
       Landmark("left_wrist", 0, 56 * up),
       Landmark("left_hip", 0, 54 * low),
       Landmark("left_knee", 0, 74 * low),
       Landmark("left_ankle", 0, 94 * low) >>

PoseScales == {0, 5, 10, 12, 20, 100}

\* a figure of which only the landmarks named in `present` were detected
Figures ==
    { SelectSeq(Figure(up, low), LAMBDA lm : lm.name \in present) :
        up \in PoseScales, low \in PoseScales, present \in SUBSET ScoredNames }

\* the distance of every pair the scorer measures is a whole number of
\* thousandths, so that sqrt is exact
ExactDistances(lms) ==
    \A k \in 1..Len(pairs) :
        LET a == _lm_by_name(lms, pairs[k][1])
            b == _lm_by_name(lms, pairs[k][2])
            d2 == (a.x - b.x) * (a.x - b.x) + (a.y - b.y) * (a.y - b.y)
        IN (a # None /\ b # None) => sqrt(d2) * sqrt(d2) = d2

\* the exact value of (1 - mean error) * 100 lies halfway between two
\* hundredths: there the rounding error of the floats decides what round()
\* returns, so these inputs are left out
RoundingTie(lms) ==
    LET errors == errors_from(lms, 1)
        den == Len(errors) * ErrScale
        num == den - sum_of(errors)
    IN /\ errors # << >>
       /\ 2 * ((100 * ((100 * (num % den)) % den)) % den) = den

ScoreInit ==
    /\ pc = "score_start"
    /\ landmarks \in { lms \in ShortLists \cup Figures :
                         ExactDistances(lms) /\ ~ RoundingTie(lms) }
    /\ accuracy = -1
    /\ PlanIdle
    /\ ToneIdle
    /\ RunIdle
    /\ ShadeIdle
    /\ RenderIdle

\* proportion_accuracy = _score_proportions(landmarks)
ScoreProportions ==
    /\ pc = "score_start"
    /\ accuracy' = _score_proportions(landmarks)
    /\ pc' = "scored"
    /\ UNCHANGED landmarks
    /\ UNCHANGED <<planVars, toneVars, runVars, shadeVars, renderVars>>

ScoreNext == ScoreProportions

ScoreSpec == ScoreInit /\ [][ScoreNext]_vars

Scored == pc = "scored"

NamesGiven == { landmarks[i].name : i \in 1..Len(landmarks) }

\* the pairs both of whose landmarks are in the input
PresentPairs == { k \in 1..Len(pairs) : {pairs[k][1], pairs[k][2]} \subseteq NamesGiven }

\* the landmark the scorer measures for a name: its first occurrence
FirstNamed(name) ==
    landmarks[CHOOSE i \in 1..Len(landmarks) :
                /\ landmarks[i].name = name
                /\ \A j \in 1..(i - 1) : landmarks[j].name # name]

\* the clamped relative error of a present pair, in 1 / ErrScale
ClampedError(k) ==
    LET a == FirstNamed(pairs[k][1])
        b == FirstNamed(pairs[k][2])
        ideal == _IDEAL_PROPORTIONS[pairs[k][3]]
        off == Abs(_dist(a, b) - ideal)
    IN IF off >= ideal THEN ErrScale ELSE (off * ErrScale) \div ideal

RECURSIVE SumOver(_)
SumOver(S) ==
    IF S = {} THEN 0
    ELSE LET k == CHOOSE x \in S : TRUE IN ClampedError(k) + SumOver(S \ {k})

\* C14: when none of the seven pairs has both landmarks in the input (the
\* empty list included) the scorer returns exactly 50.0.
C14_NeutralDefault ==
    (Scored /\ PresentPairs = {}) => accuracy = 5000

\* landmarks were given, but no pair is complete
C14_Witness ==
    /\ Scored
    /\ PresentPairs = {}
    /\ Len(landmarks) >= 2
    /\ accuracy = 5000

\* C15: a pair with a missing endpoint is neither scored nor penalised: with
\* at least one pair present the accuracy is (1 - mean clamped error of the
\* present pairs) * 100, rounded to 2 decimals; with only nose and
\* left_shoulder given it is (1 - error of head_to_shoulder) * 100.
C15_OnlyPresentPairsScored ==
    (Scored /\ PresentPairs # {}) =>
        LET n == Cardinality(PresentPairs)
        IN /\ accuracy = percent_hundredths(n * ErrScale - SumOver(PresentPairs), n * ErrScale)
           /\ NamesGiven = {"nose", "left_shoulder"} =>
                 /\ PresentPairs = {7}
                 /\ accuracy = percent_hundredths(ErrScale - ClampedError(7), ErrScale)

\* scenario D with an accuracy other than the neutral default
C15_Witness ==
    /\ Scored
    /\ NamesGiven = {"nose", "left_shoulder"}
    /\ accuracy \notin {5000, 0, 10000}

\* C16: the accuracy lies in [0, 100] for every landmark set, also with
\* coordinates outside [0, 1] and distances many times the ideal.
C16_AccuracyInRange ==
    Scored => (0 <= accuracy /\ accuracy <= 10000)

\* a scored pair lies outside the unit square, five times its ideal apart or more
C16_Witness ==
    /\ Scored
    /\ \E k \in PresentPairs :
          /\ _dist(FirstNamed(pairs[k][1]), FirstNamed(pairs[k][2]))
                >= 5 * _IDEAL_PROPORTIONS[pairs[k][3]]
          /\ FirstNamed(pairs[k][1]).x \notin 0..1000 \/ FirstNamed(pairs[k][2]).y \notin 0..1000

----------------------------------------------------------------------------
(* generate_drawing_steps: calls running side by side on one output        *)
(* directory.  The statements before the loop compute on the call's own    *)
(* data; session_dir.mkdir and render_step act on the shared directory.    *)

\* the contour cv2.findContours gives for the outline of the rectangle with
\* corners (x0, y0) and (x1, y1): its points, cv2.contourArea and
\* cv2.arcLength
Rectangle(parent, x0, y0, x1, y1) ==
    [ parent |-> parent,
      area_px |-> (x1 - x0) * (y1 - y0),
      perimeter_px |-> 2 * ((x1 - x0) + (y1 - y0)),
      points |-> << << x0, y0 >>, << x1, y0 >>, << x1, y1 >>, << x0, y1 >> >> ]

\* edge maps of the uploaded drawing: blank, one outline left of the centre,
\* an outline along the image border with that shape inside it
RunInputs ==
    { << >>,
      << Rectangle(-1, 2, 2, ImgW \div 2, ImgH - 3) >>,
      << Rectangle(-1, 0, 0, ImgW - 1, ImgH - 1),
         Rectangle(0, 2, 2, ImgW \div 2, ImgH - 3) >> }

\* the grayscale row of the uploaded drawing
RunGrays == { << 0, 100, 255 >> }

\* every call is given the same upload and the same options
RunInit ==
    /\ pc = "run"
    /\ raw \in RunInputs
    /\ include_shading \in BOOLEAN
    /\ analyzed = << >>
    /\ steps = << >>
    /\ grayscale \in RunGrays
    /\ bands = DEFAULT_BANDS
    /\ tone_mask = << >>
    /\ tones = NoTones
    /\ ScoreIdle
    /\ ShadeIdle
    /\ paper_size = "A4"
    /\ image_aspect = << 0, 0 >>
    /\ shapes = << >>
    /\ calls = << >>
    /\ run = [ r \in Runs |-> NewRun ]
    /\ dirs = {}
    /\ files = {}
    /\ writes = {}
    /\ faults = 0

\* the statement raises: the exception leaves generate_drawing_steps, which
\* has no handler
Raise(r) ==
    /\ faults < MaxFaults
    /\ faults' = faults + 1
    /\ run' = [run EXCEPT ![r].error = run[r].stage, ![r].stage = "failed"]

\* processed = preprocess(raw_bytes); load_image_from_bytes raises ValueError
\* on bytes that do not decode.  image_aspect = img_w / img_h
Preprocess(r) ==
    /\ run[r].stage = "preprocess"
    /\ \/ /\ run' = [run EXCEPT ![r].image_aspect = << ImgW, ImgH >>,
                               ![r].stage = after("preprocess")]
          /\ UNCHANGED faults
       \/ Raise(r)
    /\ UNCHANGED <<dirs, files, writes>>
    /\ UNCHANGED <<pc, planVars, toneVars, scoreVars, shadeVars, renderVars>>

\* contours = analyze_contours(processed["edges"])
Analyze(r) ==
    /\ run[r].stage = "analyze"
    /\ \/ /\ run' = [run EXCEPT ![r].contours = analyze_contours(raw),
                               ![r].stage = after("analyze")]
          /\ UNCHANGED faults
       \/ Raise(r)
    /\ UNCHANGED <<dirs, files, writes>>
    /\ UNCHANGED <<pc, planVars, toneVars, scoreVars, shadeVars, renderVars>>

\* steps = plan_steps(contours, include_shading=include_shading)
Plan(r) ==
    /\ run[r].stage = "plan"
    /\ \/ /\ run' = [run EXCEPT ![r].steps = plan_steps(run[r].contours, include_shading),
                               ![r].stage = after("plan")]
          /\ UNCHANGED faults
       \/ Raise(r)
    /\ UNCHANGED <<dirs, files, writes>>
    /\ UNCHANGED <<pc, planVars, toneVars, scoreVars, shadeVars, renderVars>>

\* tone_mask = generate_tone_mask(processed["grayscale"]);
\* tones = tone_summary(tone_mask)
Tone(r) ==
    /\ run[r].stage = "tone"
    /\ \/ LET mask == generate_tone_mask(grayscale, DEFAULT_BANDS)
          IN /\ run' = [run EXCEPT ![r].tone_mask = mask,
                                   ![r].tones = tone_summary(mask),
                                   ![r].stage = after("tone")]
             /\ UNCHANGED faults
       \/ Raise(r)
    /\ UNCHANGED <<dirs, files, writes>>
    /\ UNCHANGED <<pc, planVars, toneVars, scoreVars, shadeVars, renderVars>>

\* session_id = uuid.uuid4().hex[:12];
\* session_dir.mkdir(parents=True, exist_ok=True): an existing directory is
\* accepted, any other failure raises OSError
MakeSessionDir(r) ==
    /\ run[r].stage = "mkdir"
    /\ \/ \E id \in SessionIds :
             /\ run' = [run EXCEPT ![r].session_id = id,
                                   ![r].all_previous_contours = << >>,
                                   ![r].step_results = << >>,
                                   ![r].stage = after("mkdir")]
             /\ dirs' = dirs \cup {id}
             /\ UNCHANGED faults
       \/ /\ Raise(r)
          /\ UNCHANGED dirs
    /\ UNCHANGED <<files, writes>>
    /\ UNCHANGED <<pc, planVars, toneVars, scoreVars, shadeVars, renderVars>>

\* one iteration of `for step in steps`.  render_step creates the parent
\* directory (it raises on failure) and calls cv2.imwrite, which returns
\* False when it cannot store the file; render_step drops that value.
RenderStep(r) ==
    /\ run[r].stage = "render"
    /\ Len(run[r].rendered) < Len(run[r].steps)
    /\ LET k == Len(run[r].rendered) + 1
           step == run[r].steps[k]
           filename == filename_of(step)
           output_path == output_path_of(run[r].session_id, filename)
           shading == shading_for(step, run[r].tone_mask)
           start == primary_centroid(raw, run[r].contours)
           arrays(batch) ==
               [ b \in 1..Len(batch) |-> points_normalised(raw, run[r].contours[batch[b] + 1]) ]
           canvas == render_step(step.step_number, step.phase_name,
                                 arrays(run[r].all_previous_contours),
                                 arrays(step.contours),
                                 run[r].image_aspect, start, shading,
                                 paper_size, GRID_CELLS)
           call == RenderCall(step, run[r].all_previous_contours, start, shading,
                              output_path, canvas)
           done == [run EXCEPT
                      ![r].rendered = Append(run[r].rendered, call),
                      ![r].step_results =
                          Append(run[r].step_results,
                                 StepResult(step, filename, run[r].session_id,
                                            run[r].all_previous_contours)),
                      ![r].all_previous_contours =
                          extend(run[r].all_previous_contours, step.contours)]
       IN \/ /\ run' = done
             /\ dirs' = dirs \cup {run[r].session_id}
             /\ files' = files \cup {output_path}
             /\ writes' = writes \cup {[ run |-> r, step |-> k, path |-> output_path ]}
             /\ UNCHANGED faults
          \/ /\ faults < MaxFaults
             /\ faults' = faults + 1
             /\ run' = done
             /\ dirs' = dirs \cup {run[r].session_id}
             /\ UNCHANGED <<files, writes>>
          \/ /\ faults < MaxFaults
             /\ faults' = faults + 1
             /\ run' = [run EXCEPT ![r].rendered = Append(run[r].rendered, call),
                                   ![r].error = "render",
                                   ![r].stage = "failed"]
             /\ UNCHANGED <<dirs, files, writes>>
    /\ UNCHANGED <<pc, planVars, toneVars, scoreVars, shadeVars, renderVars>>

\* return GenerationResult(...)
Return(r) ==
    /\ run[r].stage = "render"
    /\ Len(run[r].rendered) = Len(run[r].steps)
    /\ run' = [run EXCEPT ![r].stage = after("render")]
    /\ UNCHANGED <<dirs, files, writes, faults>>
    /\ UNCHANGED <<pc, planVars, toneVars, scoreVars, shadeVars, renderVars>>

RunNext ==
    \E r \in Runs :
        \/ Preprocess(r)
        \/ Analyze(r)
        \/ Plan(r)
        \/ Tone(r)
        \/ MakeSessionDir(r)
        \/ RenderStep(r)
        \/ Return(r)

RunSpec == RunInit /\ [][RunNext]_vars

Started == run # << >>

UpstreamStages == { "preprocess", "analyze", "plan", "tone" }

FailedUpstream(r) == run[r].stage = "failed" /\ run[r].error \in UpstreamStages

Returned(r) == run[r].stage = "returned"

\* the batches of the first k steps of a plan, one after the other
RECURSIVE batches_before(_, _)
batches_before(plan, k) ==
    IF k = 0 THEN << >> ELSE batches_before(plan, k - 1) \o plan[k].contours

\* C17: the planned steps are rendered strictly in plan order; the call for
\* step k passes as previous_contours exactly the batches of the steps before
\* k, one after the other, and as new_contours exactly the batch of step k.
C17_RenderedInPlanOrder ==
    Started =>
        \A r \in Runs :
            /\ Len(run[r].rendered) <= Len(run[r].steps)
            /\ Returned(r) => Len(run[r].rendered) = Len(run[r].steps)
            /\ \A k \in 1..Len(run[r].rendered) :
                  /\ run[r].rendered[k].step_number = run[r].steps[k].step_number
                  /\ run[r].rendered[k].phase_name = run[r].steps[k].phase_name
                  /\ run[r].rendered[k].new_contours = run[r].steps[k].contours
                  /\ run[r].rendered[k].previous_contours = batches_before(run[r].steps, k - 1)

\* a call has returned after a step that came after two non-empty batches
C17_Witness ==
    /\ Started
    /\ \E r \in Runs :
          /\ Returned(r)
          /\ \E k \in 1..Len(run[r].rendered) :
                \E i, j \in 1..(k - 1) :
                    /\ i < j
                    /\ run[r].steps[i].contours # << >>
                    /\ run[r].steps[j].contours # << >>
                    /\ Len(run[r].rendered[k].previous_contours) >= 2

\* C18: when preprocessing, contour extraction, step planning or tone
\* segmentation fails, the call ends with the error and has left nothing
\* behind: it has made no session directory, rendered no step and written no
\* file; while no call has come past these stages the output directory is
\* empty.
C18_UpstreamFailureLeavesNothing ==
    Started =>
        /\ \A r \in Runs :
              FailedUpstream(r) =>
                  /\ run[r].session_id = NoSession
                  /\ run[r].rendered = << >>
                  /\ run[r].step_results = << >>
                  /\ \A w \in writes : w.run # r
        /\ (\A r \in Runs : FailedUpstream(r) \/ run[r].stage \in UpstreamStages)
              => (dirs = {} /\ files = {})

\* tone segmentation, the last stage before the session directory, has failed
C18_Witness ==
    /\ Started
    /\ \E r \in Runs : FailedUpstream(r) /\ run[r].error = "tone"
    /\ \A r \in Runs : FailedUpstream(r) \/ run[r].stage \in UpstreamStages

\* C19: a call that returns a result lists only steps whose image file has
\* been written.
C19_ResultListsOnlyWrittenFiles ==
    Started =>
        \A r \in Runs :
            Returned(r) =>
                \A k \in 1..Len(run[r].step_results) :
                    output_path_of(run[r].session_id, run[r].step_results[k].image_filename)
                        \in files

\* C20: no two writes target the same path, neither two steps of one call
\* nor steps of two calls.
C20_NoTwoWritesToOnePath ==
    \A v, w \in writes : v.path = w.path => v = w

----------------------------------------------------------------------------
(* shading_mapper.py, on a grayscale image of one row *)

\* DEFAULT_BANDS of shading_mapper.py: (label, low, high)
SHADING_DEFAULT_BANDS ==
    << << "deep_shadow", 0, 63 >>,
       << "mid_tone", 64, 191 >>,
       << "highlight", 192, 255 >> >>

\* cv2.connectedComponentsWithStats on a row: the maximal runs of pixels in
\* the band from pixel x on, left to right, as << left, width >>; `open` is
\* the run being extended
RECURSIVE components_from(_, _, _, _, _)
components_from(gray, low, high, x, open) ==
    IF x > Len(gray)
    THEN IF open = << >> THEN << >> ELSE << open >>
    ELSE IF inRange(gray[x], low, high)
         THEN components_from(gray, low, high, x + 1,
                              IF open = << >> THEN << x - 1, 1 >>
                              ELSE << open[1], open[2] + 1 >>)
         ELSE (IF open = << >> THEN << >> ELSE << open >>)
                 \o components_from(gray, low, high, x + 1, << >>)

\* the loop of _regions_for_band over the components from the k-th on;
\* components under 0.1% of the image are skipped. The bounding box is kept
\* in units of 1 / w (the code stores x / w rounded to six decimals, which
\* keeps distinct columns of a row this short distinct)
RECURSIVE regions_from(_, _, _, _, _, _)
regions_from(gray, band, comps, k, offset, found) ==
    IF k > Len(comps) THEN found
    ELSE IF comps[k][2] * 1000 < Len(gray)
         THEN regions_from(gray, band, comps, k + 1, offset, found)
         ELSE regions_from(gray, band, comps, k + 1, offset,
                  Append(found,
                         [ region_id |-> offset + Len(found),
                           label |-> band[1],
                           intensity_range |-> << band[2], band[3] >>,
                           pixel_count |-> comps[k][2],
                           bounding_box |->
                               [ x_min |-> comps[k][1],
                                 x_max |-> comps[k][1] + comps[k][2] ] ]))

_regions_for_band(gray, band, offset) ==
    regions_from(gray, band, components_from(gray, band[2], band[3], 1, << >>),
                 1, offset, << >>)

\* the loop of map_shading over the bands from the k-th on
RECURSIVE shading_loop(_, _, _, _)
shading_loop(gray, bs, k, all_regions) ==
    IF k > Len(bs) THEN all_regions
    ELSE shading_loop(gray, bs, k + 1,
                      all_regions \o _regions_for_band(gray, bs[k], Len(all_regions)))

map_shading(gray, bs) == shading_loop(gray, bs, 1, << >>)

\* the tone mapper and the shading mapper on the same grayscale image
ShadeInit ==
    /\ pc = "tone_start"
    /\ bands = DEFAULT_BANDS
    /\ grayscale \in GrayInputs
    /\ tone_mask = << >>
    /\ tones = NoTones
    /\ regions = NotMapped
    /\ PlanIdle
    /\ ScoreIdle
    /\ RunIdle
    /\ RenderIdle

\* regions = map_shading(grayscale)
MapShading ==
    /\ regions = NotMapped
    /\ regions' = map_shading(grayscale, SHADING_DEFAULT_BANDS)
    /\ UNCHANGED <<pc, planVars, toneVars, scoreVars, runVars, renderVars>>

ShadeNext == GenerateToneMask \/ ToneSummary \/ MapShading

ShadeSpec == ShadeInit /\ [][ShadeNext]_vars

Mapped == regions # NotMapped

\* the label of the tone mapper's band with that mask value
ToneLabel(val) ==
    DEFAULT_BANDS[CHOOSE k \in 1..Len(DEFAULT_BANDS) : DEFAULT_BANDS[k].val = val].label

\* the labels of the regions that cover pixel x (0-based) of the row
RegionLabels(x) ==
    { regions[k].label :
        k \in { j \in 1..Len(regions) :
                   /\ regions[j].bounding_box.x_min <= x
                   /\ x < regions[j].bounding_box.x_max } }

\* C30: the tone mapper and the shading mapper classify every intensity
\* alike: on an image of one pixel the label of the tone mask's value is the
\* label of the shading region that holds the pixel.
C30_SameBandLabels ==
    (Masked /\ Mapped /\ Len(grayscale) = 1) =>
        RegionLabels(0) = { ToneLabel(tone_mask[1]) }

----------------------------------------------------------------------------
(* render_step on its own: a caller holds some shapes and calls render_step *)
(* several times on one paper size and one image aspect                     *)

\* paper sizes a caller may name; "letter" is not in PAPER_SIZES
RenderPapers == { "A4", "A3", "square", "letter" }

\* width and height of images resize_preserve_aspect returns: the longest
\* side is WORKING_SIZE
Aspects ==
    { << 1024, 1024 >>, << 1024, 768 >>, << 768, 1024 >>,
      << 1024, 576 >>, << 1024, 1 >>, << 1, 1024 >> }

\* the point arrays the caller holds: an outline along the border of the
\* image and a triangle inside it; two shapes may hold equal points
ShapeHeaps ==
    LET border == << << 0, 1, 0, 1 >>, << 1, 1, 0, 1 >>, << 1, 1, 1, 1 >>, << 0, 1, 1, 1 >> >>
        triangle == << << 1, 4, 1, 4 >>, << 3, 4, 1, 2 >>, << 1, 2, 3, 4 >> >>
    IN { << border, triangle >>, << triangle, triangle >> }

Args(step_number, phase_name, previous_contours, new_contours, start_centroid, shading_mask) ==
    [ step_number |-> step_number,
      phase_name |-> phase_name,
      previous_contours |-> previous_contours,
      new_contours |-> new_contours,
      start_centroid |-> start_centroid,
      shading_mask |-> shading_mask ]

\* the calls a caller makes: contours are named by their 0-based position
\* in `shapes`
RenderArgs ==
    { Args(0, "Preparation", << >>, << >>, << 1, 2, 1, 2 >>, NoMask),
      Args(0, "Preparation", << >>, << >>, << 1, 1, 1, 1 >>, << 0, 1, 2 >>),
      Args(1, "Primary Outline", << >>, << 0 >>, << 1, 4, 3, 4 >>, NoMask),
      Args(1, "Primary Outline", << >>, << 0 >>, NoCentroid, NoMask),
      Args(2, "Secondary Shapes", << 0 >>, << 1 >>, << 1, 4, 3, 4 >>, NoMask),
      Args(1, "Shading", << 0 >>, << 1 >>, << 1, 4, 3, 4 >>, << 1, 0 >>),
      Args(3, "Shading", << 0, 1 >>, << >>, << 1, 4, 3, 4 >>, << 0, 1, 2 >>) }

RenderInit ==
    /\ pc = "render"
    /\ paper_size \in RenderPapers
    /\ image_aspect \in Aspects
    /\ shapes \in ShapeHeaps
    /\ calls = << >>
    /\ PlanIdle
    /\ ToneIdle
    /\ ScoreIdle
    /\ RunIdle
    /\ ShadeIdle

\* the point arrays of the contours of a list
points_of(contours) == [ k \in 1..Len(contours) |-> shapes[contours[k] + 1] ]

\* canvas = render_step(...), with output_path = None
Render ==
    /\ pc = "render"
    /\ Len(calls) < MaxCalls
    /\ \E a \in RenderArgs :
          LET draw_area == _draw_grid(size_of(paper_size), GRID_CELLS).draw_area
              drawn == { a.previous_contours[k] : k \in 1..Len(a.previous_contours) }
                         \cup { a.new_contours[k] : k \in 1..Len(a.new_contours) }
              canvas == render_step(a.step_number, a.phase_name,
                                    points_of(a.previous_contours),
                                    points_of(a.new_contours),
                                    image_aspect, a.start_centroid, a.shading_mask,
                                    paper_size, GRID_CELLS)
          IN /\ calls' = Append(calls, [ args |-> a,
                                         previous_points |-> points_of(a.previous_contours),
                                         new_points |-> points_of(a.new_contours),
                                         canvas |-> canvas ])
             /\ shapes' = [ s \in 1..Len(shapes) |->
                              IF s - 1 \in drawn
                              THEN array_after_scaling(
                                       shapes[s],
                                       _normalised_to_canvas(shapes[s], draw_area, image_aspect))
                              ELSE shapes[s] ]
    /\ UNCHANGED <<pc, paper_size, image_aspect>>
    /\ UNCHANGED <<planVars, toneVars, scoreVars, runVars, shadeVars>>

RenderNext == Render

RenderSpec == RenderInit /\ [][RenderNext]_vars

\* the canvas pixel of the normalised point p under a footprint
PlacedBy(f, p) ==
    << (p[1] * f.render_w) \div p[2] + f.offset_x,
       (p[3] * f.render_h) \div p[4] + f.offset_y >>

\* every point of the polylines `lines` is the one placed by f from `arrays`
PlacedAll(f, arrays, lines) ==
    \A k \in 1..Len(arrays) :
        \A p \in 1..Len(arrays[k]) : lines[k][p] = PlacedBy(f, arrays[k][p])

\* the area of the grid of the paper size in use
DrawArea == _draw_grid(size_of(paper_size), GRID_CELLS).draw_area

InBox(px, box) ==
    /\ box[1] <= px[1] /\ px[1] <= box[3]
    /\ box[2] <= px[2] /\ px[2] <= box[4]

\* C21: the footprint that places the tone-mask overlay is the one that
\* places the shape points and the marker: in every call that draws the
\* overlay, each polyline point and the marker lie on the canvas pixel where
\* the overlay puts the mask pixel of the same relative position, and all
\* calls of one paper size and image aspect use one footprint.
C21_OneFootprint ==
    \A i \in 1..Len(calls) :
        LET c == calls[i]
            ov == c.canvas.overlay
        IN ov.drawn =>
              /\ PlacedAll(ov, c.previous_points, c.canvas.previous)
              /\ PlacedAll(ov, c.new_points, c.canvas.new)
              /\ c.canvas.marker # NoMarker =>
                    c.canvas.marker = PlacedBy(ov, c.args.start_centroid)
              /\ \A j \in 1..Len(calls) :
                    calls[j].canvas.overlay.drawn =>
                       /\ calls[j].canvas.overlay.render_w = ov.render_w
                       /\ calls[j].canvas.overlay.render_h = ov.render_h
                       /\ calls[j].canvas.overlay.offset_x = ov.offset_x
                       /\ calls[j].canvas.overlay.offset_y = ov.offset_y

\* a call drew the overlay, contours and the marker on a footprint that is
\* centred with a gap above it
C21_Witness ==
    \E i \in 1..Len(calls) :
        /\ calls[i].canvas.overlay.drawn
        /\ calls[i].canvas.marker # NoMarker
        /\ calls[i].new_points # << >>
        /\ calls[i].canvas.previous # << >>
        /\ calls[i].canvas.overlay.offset_y > DrawArea[2]

\* C27: the footprint fits inside the drawing area with one side equal to
\* the area's, the gaps on either side of it differ by at most one pixel,
\* every point drawn and the marker lie in the drawing area, and the pixels
\* the overlay loops visit lie in the drawing area, hence in the canvas.
C27_FootprintInsideArea ==
    pc = "render" =>
        LET f == footprint(DrawArea, image_aspect)
            size == size_of(paper_size)
            area_w == DrawArea[3] - DrawArea[1]
            area_h == DrawArea[4] - DrawArea[2]
            left == f.offset_x - DrawArea[1]
            right == DrawArea[3] - (f.offset_x + f.render_w)
            top == f.offset_y - DrawArea[2]
            bottom == DrawArea[4] - (f.offset_y + f.render_h)
        IN /\ 0 <= DrawArea[1] /\ DrawArea[3] < size[1]
           /\ 0 <= DrawArea[2] /\ DrawArea[4] < size[2]
           /\ f.render_w <= area_w /\ f.render_h <= area_h
           /\ f.render_w = area_w \/ f.render_h = area_h
           /\ left >= 0 /\ right - left \in {0, 1}
           /\ top >= 0 /\ bottom - top \in {0, 1}
           /\ \A i \in 1..Len(calls) :
                 LET canvas == calls[i].canvas
                     ov == canvas.overlay
                 IN /\ \A k \in 1..Len(canvas.previous) :
                          \A p \in 1..Len(canvas.previous[k]) :
                              InBox(canvas.previous[k][p], DrawArea)
                    /\ \A k \in 1..Len(canvas.new) :
                          \A p \in 1..Len(canvas.new[k]) : InBox(canvas.new[k][p], DrawArea)
                    /\ canvas.marker # NoMarker => InBox(canvas.marker, DrawArea)
                    /\ ov.drawn =>
                          /\ ov.render_w >= 1 /\ ov.render_h >= 1
                          /\ InBox(<< ov.offset_x, ov.offset_y >>, DrawArea)
                          /\ InBox(<< ov.offset_x + 3 * ((ov.render_w - 1) \div 3),
                                      ov.offset_y + ov.render_h - 1 >>, DrawArea)

\* a wide image on A3: a call drew the outline along the image border, the
\* marker in the far corner and the overlay
C27_Witness ==
    /\ paper_size = "A3"
    /\ image_aspect[1] > image_aspect[2]
    /\ \E i \in 1..Len(calls) :
          /\ calls[i].canvas.overlay.drawn
          /\ calls[i].canvas.marker # NoMarker
          /\ calls[i].args.start_centroid = << 1, 1, 1, 1 >>
    /\ \E i \in 1..Len(calls) :
          \E k \in 1..Len(calls[i].previous_points) :
              \E p \in 1..Len(calls[i].previous_points[k]) :
                  calls[i].previous_points[k][p] = << 1, 1, 1, 1 >>

\* C28: render_step is stateless: the point arrays of the contours given to
\* a call hold after it, and after every later call, what they held when it
\* was made, and two calls with equal arguments return equal canvases
\* whatever was called in between.
C28_RenderStepStateless ==
    \A i \in 1..Len(calls) :
        /\ points_of(calls[i].args.previous_contours) = calls[i].previous_points
        /\ points_of(calls[i].args.new_contours) = calls[i].new_points
        /\ \A j \in 1..Len(calls) :
              calls[i].args = calls[j].args => calls[i].canvas = calls[j].canvas

\* two calls with equal arguments that drew contours, and a different call
\* on the same contours between them
C28_Witness ==
    /\ Len(calls) >= 3
    /\ calls[1].args = calls[3].args
    /\ calls[2].args # calls[1].args
    /\ calls[1].new_points # << >>
    /\ calls[2].previous_points # << >>
    /\ calls[2].canvas.overlay.drawn

----------------------------------------------------------------------------
(* Properties of the step images and the step records of a pipeline run *)

\* the call has executed `for step in steps` to its end or is in it
InLoop(r) == run[r].stage \in { "render", "returned" }

\* the fields of a planned step that hold its number, names, batch and flag
StepFields == { "step_number", "phase_name", "contours", "is_shading_step" }

\* the marker location of a run: the centroid of the first ranked shape, or
\* the centre of the canvas
MarkerLocation(r) ==
    IF run[r].contours # << >> THEN centroid(raw, run[r].contours[1]) ELSE << 1, 2, 1, 2 >>

\* C22: render_step draws the marker iff a centroid is supplied and the step
\* number is 0 or 1; in a pipeline run the marker is on steps 0 and 1, the
\* first two images, and on no step numbered 2 or higher.
C22_MarkerOnStepsZeroAndOne ==
    Started =>
        \A r \in Runs :
            /\ \A k \in 1..Len(run[r].rendered) :
                  LET call == run[r].rendered[k]
                  IN /\ call.canvas.marker # NoMarker
                          <=> (call.start_centroid # NoCentroid /\ call.step_number \in {0, 1})
                     /\ call.step_number >= 2 => call.canvas.marker = NoMarker
            /\ Len(run[r].rendered) >= 2 =>
                  /\ run[r].rendered[1].step_number = 0
                  /\ run[r].rendered[1].canvas.marker # NoMarker
                  /\ run[r].rendered[2].step_number = 1
                  /\ run[r].rendered[2].canvas.marker # NoMarker

\* C23: the Preparation step returned by the planner carries the marker
\* location - the centroid of the first ranked shape, or (0.5, 0.5) for an
\* empty input - and the marker of the Preparation image is at that location.
C23_PreparationCarriesMarkerLocation ==
    Started =>
        \A r \in Runs :
            run[r].steps # << >> =>
                LET prep == run[r].steps[1]
                IN /\ prep.phase_name = "Preparation"
                   /\ \E f \in DOMAIN prep \ StepFields : prep[f] = MarkerLocation(r)
                   /\ run[r].rendered # << >> =>
                         run[r].rendered[1].canvas.marker =
                             PlacedBy(footprint(run[r].rendered[1].canvas.grid.draw_area,
                                                run[r].image_aspect),
                                      MarkerLocation(r))

\* C25: in the step records of a run, the new-shape count of step k is the
\* size of its batch and the cumulative count is the sum of the batch sizes
\* of steps 0..k; the cumulative count never decreases, is 0 on Preparation
\* and, on the last step of a returned call, is the number of ranked shapes,
\* with or without a shading step.
C25_ShapeCounts ==
    Started =>
        \A r \in Runs :
            LET res == run[r].step_results
            IN /\ \A k \in 1..Len(res) :
                     /\ res[k].new_contour_count = Len(run[r].steps[k].contours)
                     /\ res[k].total_contours_so_far = Len(batches_before(run[r].steps, k))
                     /\ k > 1 => res[k - 1].total_contours_so_far <= res[k].total_contours_so_far
               /\ res # << >> =>
                     /\ res[1].phase_name = "Preparation"
                     /\ res[1].total_contours_so_far = 0
               /\ Returned(r) =>
                     /\ Len(res) = Len(run[r].steps)
                     /\ res[Len(res)].total_contours_so_far = Len(run[r].contours)

\* a returned call on two shapes with the shading step: the counts rise to 2
\* and stay there on the shading step
C25_Witness ==
    /\ Started
    /\ include_shading
    /\ \E r \in Runs :
          /\ Returned(r)
          /\ Len(run[r].contours) = 2
          /\ Len(run[r].step_results) = 4
          /\ run[r].step_results[2].total_contours_so_far = 1
          /\ run[r].step_results[3].new_contour_count = 1
          /\ run[r].step_results[4].is_shading_step
          /\ run[r].step_results[4].total_contours_so_far = 2

\* C26: render_step is given the tone mask for a step iff the step is
\* flagged as the shading step, and draws the hatch overlay only then: on at
\* most one step, the last one, and on none when include_shading is false;
\* the tone mask and the tone distribution are computed in every run that
\* reaches the loop.
C26_MaskOnlyOnShadingStep ==
    Started =>
        \A r \in Runs :
            /\ InLoop(r) => (run[r].tone_mask # NoMask /\ run[r].tones # NoTones)
            /\ \A k \in 1..Len(run[r].rendered) :
                  LET call == run[r].rendered[k]
                  IN /\ call.shading_mask # NoMask <=> run[r].steps[k].is_shading_step
                     /\ call.shading_mask # NoMask => call.shading_mask = run[r].tone_mask
                     /\ call.canvas.overlay.drawn <=> run[r].steps[k].is_shading_step
                     /\ call.canvas.overlay.drawn => (include_shading /\ k = Len(run[r].steps))

\* one run with shading drew the overlay on its last image and on no other
C26_Witness ==
    /\ Started
    /\ include_shading
    /\ \E r \in Runs :
          /\ Returned(r)
          /\ Len(run[r].rendered) >= 3
          /\ run[r].rendered[Len(run[r].rendered)].canvas.overlay.drawn
          /\ run[r].rendered[Len(run[r].rendered)].canvas.overlay.mask = run[r].tone_mask
          /\ ~ run[r].rendered[2].canvas.overlay.drawn

====
